---- MODULE Spec2Model ----
(***************************************************************************)
(* pubsub-to-pubsub: RootCmd.Run of package cmd.                           *)
(*                                                                         *)
(* The process validates its configuration, parses the two credential      *)
(* blobs, builds the two Pub/Sub clients, opens the source subscription    *)
(* and the destination topic, and then relays: sub.Receive calls the       *)
(* handler concurrently, the handler publishes the message and acks or     *)
(* nacks it.                                                               *)
(*                                                                         *)
(* Handler invocations are goroutines without a name of their own, so the  *)
(* in-flight invocations are kept as a bag of records (one record per      *)
(* invocation, equal records counted).  The source subscription always     *)
(* has messages to deliver; of the messages it holds, only those that were *)
(* nacked after a successful publish are counted, because they differ from *)
(* the others.  The handler closure assigns the publish                    *)
(* result to the variable err of Run (line 134 uses =, not :=), so err is  *)
(* one variable shared by Run and by every invocation; the write and the   *)
(* read of it are separate steps of an invocation.                         *)
(***************************************************************************)
EXTENDS Integers, FiniteSets, Sequences, Bags, TLC

\* Most messages the broker holds for redelivery that were nacked although
\* their publish had succeeded.
MaxRedeliver == 1

\* const pubSubMaxOutstandingMessages = 10
pubSubMaxOutstandingMessages == 10

\* The required configuration fields, in the order Run tests them.
RequiredFields ==
    << "FromGoogleCloudProject", "ToGoogleCloudProject",
       "PubSubSubscription", "PubSubDestinationTopic" >>

\* Values of the error variable err.
Nil == "nil"
ErrCredentials == "invalid credentials"
ErrClient == "client construction failed"
ErrPublish == "publish failed"
ErrReceive == "subscription error"

VARIABLES
    pc,          \* where Run is
    cfg,         \* the Config singleton, filled by initConfig before Run
    fromCreds,   \* "unset", "nil" or "creds"
    toCreds,
    fromClient,  \* "unset", "nil" or "client"
    toClient,
    sub,         \* <<>> or <<ReceiveSettings>> of the opened subscription
    topic,       \* <<>> or <<topic name>>
    err,         \* Run's err, captured by the handler closure
    redeliver,   \* nacked messages awaiting redelivery, already published
    inflight,    \* bag of running handler invocations
    last,        \* <<>> or <<what the last returned invocation did>>
    recvRet,     \* <<>> or <<value sub.Receive returned>>
    stderr,      \* the message the process died with, "" while it runs
    exit         \* <<>> while the process runs, <<status>> once it exited

vars ==
    << pc, cfg, fromCreds, toCreds, fromClient, toClient, sub, topic, err,
       redeliver, inflight, last, recvRet, stderr, exit >>

startup == << cfg, fromCreds, toCreds, fromClient, toClient, sub, topic >>
relay == << redeliver, inflight, last, recvRet >>

----------------------------------------------------------------------------
\* Configuration

\* A credential blob is either valid JSON key material or not (the empty
\* default is not).
ValidJSON == "{key}"

ConfigSpace ==
    [ FromGoogleCloudProject : {"", "src-project"},
      ToGoogleCloudProject : {"", "dst-project"},
      PubSubSubscription : {"", "sub"},
      PubSubDestinationTopic : {"", "topic"},
      FromGoogleApplicationCredentials : {ValidJSON, ""},
      ToGoogleApplicationCredentials : {ValidJSON, ""} ]

\* The test of the destination topic name (lines 107-110) left out.
FirstEmptyNoTopic(c) ==
    IF c.FromGoogleCloudProject = "" THEN 1
    ELSE IF c.ToGoogleCloudProject = "" THEN 2
    ELSE IF c.PubSubSubscription = "" THEN 3
    ELSE 0

\* Lines 93-110: the first empty required field, 0 when there is none.
FirstEmpty(c) ==
    IF c.FromGoogleCloudProject = "" THEN 1
    ELSE IF c.ToGoogleCloudProject = "" THEN 2
    ELSE IF c.PubSubSubscription = "" THEN 3
    ELSE IF c.PubSubDestinationTopic = "" THEN 4
    ELSE 0

\* google.CredentialsFromJSON: credentials and error.
CredentialsFromJSON(json) ==
    IF json = ValidJSON
    THEN [creds |-> "creds", err |-> Nil]
    ELSE [creds |-> "nil", err |-> ErrCredentials]

\* Lines 112-113: both results are assigned to the same err, the second
\* assignment last.
ErrAfterCredentials(from, to) == to.err

\* Lines 120-121: likewise for the two clients.
ErrAfterClients(from, to) == to.err

\* pubsub.NewClient: client and error.  With nil credentials the library
\* falls back to the ambient default credentials, so success does not
\* depend on the credentials handed in.
NewClient(ok) ==
    IF ok THEN [client |-> "client", err |-> Nil]
    ELSE [client |-> "nil", err |-> ErrClient]

----------------------------------------------------------------------------
\* Handler invocations

FreshHandler(p) == [pc |-> "publish", res |-> "none", pub |-> p, own |-> FALSE]

One(h) == SetToBag({h})

Outstanding == BagCardinality(inflight)

\* Every invocation loses the mark "err holds the value I stored".
ClearOwn(B) ==
    LET S == {[e EXCEPT !.own = FALSE] : e \in DOMAIN B}
        N(e) == IF e \in DOMAIN B THEN B[e] ELSE 0
    IN  [e \in S |-> N(e) + N([e EXCEPT !.own = TRUE])]

\* The flow controller off by one.
CanDeliverOffByOne(n, max) == n <= max

\* ReceiveSettings.MaxOutstandingMessages: the flow controller admits a
\* message only while fewer than max are outstanding.
CanDeliver(n, max) == n < max

\* The else branch logging the error without msg.Nack().
HandlerBranchNoNack(e) ==
    IF e = Nil
    THEN [ack |-> 1, nack |-> 0, logged |-> FALSE]
    ELSE [ack |-> 0, nack |-> 0, logged |-> TRUE]

\* Lines 134-139: the branch taken on the value read from err.
HandlerBranch(e) ==
    IF e = Nil
    THEN [ack |-> 1, nack |-> 0, logged |-> FALSE]
    ELSE [ack |-> 0, nack |-> 1, logged |-> TRUE]

\* logrus.Fatalf in place of logrus.Errorf: the process exits.
ExitAfterHandlerFatal(e, ex) == IF e # Nil THEN <<1>> ELSE ex

\* Line 137: logrus.Errorf logs and returns; the process keeps running.
ExitAfterHandler(e, ex) == ex

\* context.Background() is never cancelled.
ctxDone == FALSE

\* sub.Receive returns nil when its context is done and the subscription's
\* error otherwise, after all outstanding handler calls returned.
ReceiveResult(done) == IF done THEN Nil ELSE ErrReceive

\* The test of line 142 inverted.
ExitAfterReceiveInverted(e) == IF e = Nil THEN <<1>> ELSE <<0>>

\* Lines 142-145: logrus.Fatal exits 1; otherwise Run returns and the
\* process ends with status 0.
ExitAfterReceive(e) == IF e # Nil THEN <<1>> ELSE <<0>>

----------------------------------------------------------------------------
Init ==
    /\ pc = "validate"
    /\ cfg \in ConfigSpace
    /\ fromCreds = "unset"
    /\ toCreds = "unset"
    /\ fromClient = "unset"
    /\ toClient = "unset"
    /\ sub = <<>>
    /\ topic = <<>>
    /\ err = Nil
    /\ redeliver = 0
    /\ inflight = EmptyBag
    /\ last = <<>>
    /\ recvRet = <<>>
    /\ stderr = ""
    /\ exit = <<>>

\* Lines 93-110
ValidateConfig ==
    /\ pc = "validate"
    /\ IF FirstEmpty(cfg) # 0
       THEN /\ pc' = "exited"
            /\ stderr' = RequiredFields[FirstEmpty(cfg)] \o " must be set"
            /\ exit' = <<1>>
       ELSE /\ pc' = "credentials"
            /\ UNCHANGED << stderr, exit >>
    /\ UNCHANGED << startup, relay, err >>

\* Lines 112-118
ParseCredentials ==
    /\ pc = "credentials"
    /\ LET from == CredentialsFromJSON(cfg.FromGoogleApplicationCredentials)
           to == CredentialsFromJSON(cfg.ToGoogleApplicationCredentials)
           e == ErrAfterCredentials(from, to)
       IN  /\ fromCreds' = from.creds
           /\ toCreds' = to.creds
           /\ err' = e
           /\ IF e # Nil
              THEN /\ pc' = "exited"
                   /\ stderr' = "Could not find credentials"
                   /\ exit' = <<1>>
              ELSE /\ pc' = "clients"
                   /\ UNCHANGED << stderr, exit >>
    /\ UNCHANGED << cfg, fromClient, toClient, sub, topic, relay >>

\* Lines 120-126
CreateClients ==
    /\ pc = "clients"
    /\ \E fromOK \in BOOLEAN, toOK \in BOOLEAN :
        LET from == NewClient(fromOK)
            to == NewClient(toOK)
            e == ErrAfterClients(from, to)
        IN  /\ fromClient' = from.client
            /\ toClient' = to.client
            /\ err' = e
            /\ IF e # Nil
               THEN /\ pc' = "exited"
                    /\ stderr' = "Could not create pubsub Client"
                    /\ exit' = <<1>>
               ELSE /\ pc' = "open"
                    /\ UNCHANGED << stderr, exit >>
    /\ UNCHANGED << cfg, fromCreds, toCreds, sub, topic, relay >>

\* Lines 128-131.  Subscription on a nil *Client dereferences it: the Go
\* runtime panics and the process dies with status 2.
OpenSubscription ==
    /\ pc = "open"
    /\ IF fromClient = "nil"
       THEN /\ pc' = "exited"
            /\ stderr' = "panic: nil pointer dereference"
            /\ exit' = <<2>>
            /\ UNCHANGED << sub, topic >>
       ELSE /\ pc' = "receive"
            /\ sub' = << [MaxOutstandingMessages |-> pubSubMaxOutstandingMessages] >>
            /\ topic' = << cfg.PubSubDestinationTopic >>
            /\ UNCHANGED << stderr, exit >>
    /\ UNCHANGED << cfg, fromCreds, toCreds, fromClient, toClient, relay, err >>

\* Line 133: Receive hands a message to a new handler invocation: a message
\* not published so far (p = FALSE), or one of the redeliveries (p = TRUE).
Deliver ==
    /\ pc = "receive"
    /\ CanDeliver(Outstanding, sub[1].MaxOutstandingMessages)
    /\ \E p \in BOOLEAN :
        /\ p => redeliver > 0
        /\ redeliver' = IF p THEN redeliver - 1 ELSE redeliver
        /\ inflight' = inflight (+) One(FreshHandler(p))
    /\ UNCHANGED << pc, startup, err, last, recvRet, stderr, exit >>

\* Line 134, first half: topic.Publish(ctx, msg).Get(ctx) returns and its
\* error is stored in err.
PublishGet ==
    /\ pc \in {"receive", "stopping"}
    /\ \E h \in BagToSet(inflight), r \in {Nil, ErrPublish} :
        /\ h.pc = "publish"
        /\ err' = r
        /\ inflight' =
              ClearOwn(inflight (-) One(h))
                (+) One([pc |-> "test", res |-> r,
                         pub |-> (h.pub \/ r = Nil), own |-> TRUE])
    /\ UNCHANGED << pc, startup, redeliver, last, recvRet, stderr, exit >>

\* Lines 134-139, second half: err is read and compared with nil, the
\* message is acked or nacked, and the invocation returns.  A nacked message
\* goes back to the broker for redelivery; the count of those already
\* published is capped at MaxRedeliver, an invocation that would exceed it
\* waits for a redelivery.
Finish ==
    /\ pc \in {"receive", "stopping"}
    /\ \E h \in BagToSet(inflight) :
        /\ h.pc = "test"
        /\ LET b == HandlerBranch(err)
               back == IF h.pub THEN b.nack ELSE 0
           IN  /\ redeliver + back <= MaxRedeliver
               /\ redeliver' = redeliver + back
               /\ last' = << [res |-> h.res, ack |-> b.ack, nack |-> b.nack,
                              logged |-> b.logged, own |-> h.own,
                              pub |-> h.pub] >>
        /\ inflight' = inflight (-) One(h)
    /\ exit' = ExitAfterHandler(err, exit)
    /\ pc' = IF exit' = <<>> THEN pc ELSE "exited"
    /\ stderr' = IF exit' = <<>> THEN stderr ELSE "err when inserting data"
    /\ UNCHANGED << startup, err, recvRet >>

\* The subscription fails for good (broker unreachable, subscription
\* deleted): Receive pulls no more and waits for the running handlers.
SubscriptionError ==
    /\ pc = "receive"
    /\ pc' = "stopping"
    /\ UNCHANGED << startup, relay, err, stderr, exit >>

\* Lines 133 and 142-145: Receive returns, its result is assigned to err.
ReceiveReturns ==
    /\ pc = "stopping"
    /\ inflight = EmptyBag
    /\ recvRet' = << ReceiveResult(ctxDone) >>
    /\ err' = ReceiveResult(ctxDone)
    /\ exit' = ExitAfterReceive(err')
    /\ stderr' = IF err' # Nil THEN err' ELSE ""
    /\ pc' = "exited"
    /\ UNCHANGED << startup, redeliver, inflight, last >>

Next ==
    \/ ValidateConfig
    \/ ParseCredentials
    \/ CreateClients
    \/ OpenSubscription
    \/ Deliver
    \/ PublishGet
    \/ Finish
    \/ SubscriptionError
    \/ ReceiveReturns

Spec == Init /\ [][Next]_vars

----------------------------------------------------------------------------
\* Observations

Returned == last # <<>>

\* No message has been handed to the handler so far.
NothingReceived == inflight = EmptyBag /\ last = <<>> /\ redeliver = 0

ExitedNonZero == exit # <<>> /\ exit[1] # 0

AnyRequiredEmpty ==
    \/ cfg.FromGoogleCloudProject = ""
    \/ cfg.ToGoogleCloudProject = ""
    \/ cfg.PubSubSubscription = ""
    \/ cfg.PubSubDestinationTopic = ""

\* Invocations that hold a failed publish result and have not branched yet.
FailedWaiting(B) ==
    LET S == {h \in DOMAIN B : h.pc = "test" /\ h.res = ErrPublish}
    IN  BagCardinality([h \in S |-> B[h]])

----------------------------------------------------------------------------
\* Claims

\* C1: an invocation whose own publish returned an error calls Nack exactly
\* once and never Ack.
C1_NackOnPublishFailure ==
    Returned /\ last[1].res = ErrPublish
        => last[1].nack = 1 /\ last[1].ack = 0

\* C2: an invocation whose own publish succeeded calls Ack exactly once and
\* never Nack.
C2_AckOnPublishSuccess ==
    Returned /\ last[1].res = Nil
        => last[1].ack = 1 /\ last[1].nack = 0

\* C3: every invocation that returned has called exactly one of Ack and
\* Nack, exactly once, and had obtained its publish result before.
C3_ExactlyOneOfAckNack ==
    Returned =>
        /\ last[1].ack + last[1].nack = 1
        /\ last[1].ack \in {0, 1}
        /\ last[1].nack \in {0, 1}
        /\ last[1].res \in {Nil, ErrPublish}

C3_Witness ==
    /\ Returned
    /\ last[1].nack = 1
    /\ last[1].res = ErrPublish
    /\ Outstanding > 1

\* C4: when parsing either credential blob or constructing either client
\* fails, no subscription or topic is opened, no message is received, and
\* the process does not go on or end with status zero.
C4_ExitOnCredentialOrClientFailure ==
    (fromCreds = "nil" \/ toCreds = "nil" \/ fromClient = "nil" \/ toClient = "nil")
        => /\ sub = <<>>
           /\ topic = <<>>
           /\ NothingReceived
           /\ exit # <<>> => exit[1] # 0

\* C5: with a required configuration field empty the process ends with a
\* non-zero status as its first step; no credential is parsed, no client
\* created, no subscription or topic obtained and no message received.
C5_MissingConfigExitsFirst ==
    AnyRequiredEmpty =>
        /\ pc \in {"validate", "exited"}
        /\ pc = "exited" => ExitedNonZero
        /\ fromCreds = "unset" /\ toCreds = "unset"
        /\ fromClient = "unset" /\ toClient = "unset"
        /\ sub = <<>> /\ topic = <<>>
        /\ NothingReceived

C5_Witness ==
    /\ cfg.FromGoogleCloudProject # ""
    /\ cfg.ToGoogleCloudProject # ""
    /\ cfg.PubSubSubscription # ""
    /\ cfg.PubSubDestinationTopic = ""
    /\ pc = "exited"
    /\ exit = <<1>>

\* C6: at most pubSubMaxOutstandingMessages messages are with the handler,
\* delivered and neither acked nor nacked.
C6_OutstandingBounded == Outstanding <= pubSubMaxOutstandingMessages

C6_Witness ==
    /\ Outstanding = pubSubMaxOutstandingMessages
    /\ pc = "receive"

\* C7: once Receive has returned, the process has logged the error Receive
\* returned and has exited with a non-zero status.
C7_ReceiveReturnIsFatal ==
    recvRet # <<>> => ExitedNonZero /\ stderr = recvRet[1] /\ stderr # ""

C7_Witness ==
    /\ recvRet # <<>>
    /\ Returned
    /\ exit = <<1>>

\* C8: a message is acknowledged only when it has been published to the
\* destination successfully at least once.
C8_AckedOnlyIfPublished == Returned /\ last[1].ack = 1 => last[1].pub

\* C9: a step in which a publish fails leaves the receive loop and the
\* process running, and the process leaves the receive loop only by Receive
\* returning its error.
C9_PublishFailureNonFatal ==
    [][ /\ FailedWaiting(inflight') > FailedWaiting(inflight)
            => pc' = pc /\ exit' = <<>>
        /\ (pc \in {"receive", "stopping"} /\ (pc' = "exited" \/ exit' # <<>>))
            => recvRet = <<>> /\ recvRet' = << ErrReceive >> ]_vars

C9_Witness ==
    /\ pc = "receive"
    /\ Returned
    /\ last[1].res = ErrPublish
    /\ last[1].logged
    /\ \E h \in BagToSet(inflight) : h.pc = "test" /\ h.res = Nil

\* C10: the value an invocation tests in its ack/nack branch is the publish
\* result that invocation stored itself.
C10_HandlersIndependent == Returned => last[1].own

====
